---- MODULE Spec2Model ----
(***************************************************************************)
(* clang-tidy-review: the review action (review.py).  main() builds a     *)
(* review from the linter's diagnostics and the pull request's diff, then  *)
(* either stops (split workflow), posts check-run annotations, or posts    *)
(* the review after removing what earlier runs posted and trimming it to   *)
(* --max-comments.                                                         *)
(*                                                                         *)
(* The functions imported from the clang_tidy_review package               *)
(* (create_review, decorate_comments, cull_comments,                       *)
(* convert_comment_to_annotations, the PullRequest sinks) are not part of  *)
(* review.py; they are modelled from the design document (sections 4-6).   *)
(***************************************************************************)
EXTENDS Integers, Sequences, FiniteSets, TLC

\* ---------------------------------------------------------------- bounds

\* Hunk length of every file's diff, and the largest line a diagnostic names.
MaxLine == 2

\* The values of --max-comments explored: 0 .. MaxComments.
MaxComments == 2

\* Consecutive runs of the action on the same pull request.
MaxRuns == 3

\* Lines per file of the reviews handed to post_annotations; with two files
\* this gives reviews of up to 2 * AnnotLines > MAX_ANNOTATIONS comments.
AnnotLines == 6

\* review.py:16 (imported), review.py:238 "Post the first 10 comments".
MAX_ANNOTATIONS == 10

\* The files of the pull request, and the linter instances run in parallel.
Paths == {1, 2}
Instances == 1 .. 2
Lines == 1 .. MaxLine

Kinds == {"ctx", "add", "del"}

\* ------------------------------------------------------------ data model

NoValue == -1

\* A comment without the start_line key (review.py:258).
NoStartLine == 0

\* Optional[PRReview]: None is the review that is not present.
None == [present |-> FALSE, comments |-> <<>>, body |-> <<>>]

MkReview(comments) == [present |-> TRUE, comments |-> comments, body |-> <<>>]

Range(s) == {s[i] : i \in 1 .. Len(s)}

Min(a, b) == IF a < b THEN a ELSE b

\* ------------------------------------------------------------- DiffIndex

\* One hunk per file, starting at new-file line 1 and diff position 1.
\* Every diff line advances the position; context and added lines advance
\* the new-file line; only added lines are recorded.
RECURSIVE WalkHunk(_, _, _, _)
WalkHunk(hunk, i, newline, pos) ==
    IF i > Len(hunk) THEN {}
    ELSE IF hunk[i] = "add"
         THEN {<<newline, pos>>} \cup WalkHunk(hunk, i + 1, newline + 1, pos + 1)
    ELSE IF hunk[i] = "ctx"
         THEN WalkHunk(hunk, i + 1, newline + 1, pos + 1)
    ELSE WalkHunk(hunk, i + 1, newline, pos + 1)

DiffIndex(d) == [p \in Paths |-> WalkHunk(d.hunks[p], 1, 1, 1)]

ChangedLines(d, p) == {e[1] : e \in DiffIndex(d)[p]}

MalformedDiff == [ok |-> FALSE, hunks |-> [p \in Paths |-> <<>>]]

NoDiff == [ok |-> TRUE, hunks |-> [p \in Paths |-> <<>>]]

DiffInputs ==
    {[ok |-> TRUE, hunks |-> h] : h \in [Paths -> [1 .. MaxLine -> Kinds]]}
        \cup {MalformedDiff}

\* ------------------------------------------------ diagnostics, aggregation

\* rstart: the first line of the diagnostic's replacement when that spans
\* lines above the diagnostic's own, NoStartLine otherwise.
Diagnostics ==
    {g \in [path : Paths, line : Lines, rstart : {NoStartLine} \cup Lines] :
        g.rstart \in {NoStartLine, g.line - 1}}

\* What one linter instance writes: at most one diagnostic.
OutputInputs == {<<>>} \cup {<<d>> : d \in Diagnostics}

\* The completion records whose index is the smallest one left.
RECURSIVE SortByIndex(_)
SortByIndex(done) ==
    IF done = <<>> THEN <<>>
    ELSE LET k == CHOOSE k \in 1 .. Len(done) :
                     \A j \in 1 .. Len(done) : done[k].index <= done[j].index
             rest == [j \in 1 .. Len(done) - 1 |->
                          IF j < k THEN done[j] ELSE done[j + 1]]
         IN <<done[k]>> \o SortByIndex(rest)

RECURSIVE Concat(_)
Concat(recs) ==
    IF recs = <<>> THEN <<>> ELSE Head(recs).output \o Concat(Tail(recs))

\* Mutation: the outputs are joined in the order the instances finished.
AggregateInCompletionOrder(done) == Concat(done)

\* The ordered join keyed by invocation index.
Aggregate(done) == Concat(SortByIndex(done))

\* ---------------------------------------------------------- CommentBuilder

\* Mutation: every line a hunk shows in the new file counts as changed.
OnAnyHunkLine(d, diag) ==
    diag.line \in 1 .. Cardinality({j \in 1 .. Len(d.hunks[diag.path]) :
                                       d.hunks[diag.path][j] # "del"})

OnChangedLine(d, diag) == diag.line \in ChangedLines(d, diag.path)

LocLess(a, b) == a[1] < b[1] \/ (a[1] = b[1] /\ a[2] < b[2])

RECURSIVE SortLocs(_)
SortLocs(S) ==
    IF S = {} THEN <<>>
    ELSE LET m == CHOOSE m \in S : \A o \in S : o = m \/ LocLess(m, o)
         IN <<m>> \o SortLocs(S \ {m})

\* One paragraph per diagnostic of the group, in encounter order.
GroupBody(diags, loc) ==
    LET mine == SelectSeq(diags, LAMBDA g : <<g.path, g.line>> = loc)
    IN [i \in 1 .. Len(mine) |-> "raw"]

\* The smallest first line of a replacement of the group; the comment is
\* ranged only when that line is a changed line too.
GroupStartLine(diags, d, loc) ==
    LET starts == {diags[i].rstart : i \in
                      {j \in 1 .. Len(diags) :
                          /\ <<diags[j].path, diags[j].line>> = loc
                          /\ diags[j].rstart # NoStartLine}}
    IN IF starts = {} THEN NoStartLine
       ELSE LET m == CHOOSE m \in starts : \A o \in starts : m <= o
            IN IF m \in ChangedLines(d, loc[1]) THEN m ELSE NoStartLine

CommentBuilder(diags, d) ==
    LET kept == SelectSeq(diags, LAMBDA g : OnChangedLine(d, g))
        locs == SortLocs({<<kept[i].path, kept[i].line>> : i \in 1 .. Len(kept)})
    IN MkReview([i \in 1 .. Len(locs) |->
                    [path |-> locs[i][1], line |-> locs[i][2],
                     start_line |-> GroupStartLine(kept, d, locs[i]),
                     body |-> GroupBody(kept, locs[i])]])

CompletionsInOrder(outs, codes) ==
    [i \in Instances |-> [index |-> i, output |-> outs[i], code |-> codes[i]]]

\* create_review as one call: fatal on a malformed diff or on any linter
\* instance exiting non-zero, otherwise the review built from the join.
CreateReviewOutcome(d, outs, codes) ==
    IF ~d.ok \/ (\E i \in Instances : codes[i] # 0)
    THEN [ok |-> FALSE, review |-> None]
    ELSE [ok |-> TRUE,
          review |-> CommentBuilder(Aggregate(CompletionsInOrder(outs, codes)), d)]

\* create_review may also return no review at all (Optional[PRReview]); the
\* design document does not say when, so any pull request may yield None.
CreateReviewOutcomes ==
    {CreateReviewOutcome(d, outs, codes) :
        d \in DiffInputs,
        outs \in [Instances -> OutputInputs],
        codes \in [Instances -> {0, 1}]}
    \cup {[ok |-> TRUE, review |-> None]}

ReviewInputs == {o.review : o \in {x \in CreateReviewOutcomes : x.ok}}

\* ------------------------------------------- decoration, reconciliation

\* decorate_comments: every paragraph's check name becomes a link.
DecorateComment(c) == [c EXCEPT !.body = [i \in 1 .. Len(c.body) |-> "linked"]]

decorate_comments(r) ==
    [r EXCEPT !.comments =
        [i \in 1 .. Len(r.comments) |-> DecorateComment(r.comments[i])]]

\* cull_comments: drop what is already on the pull request, then keep the
\* first max_comments and note in the review body how many were suppressed.
cull_comments(existing, r, max_comments) ==
    LET left == SelectSeq(r.comments, LAMBDA c : c \notin existing)
    IN IF Len(left) > max_comments
       THEN [r EXCEPT !.comments = SubSeq(left, 1, max_comments),
                      !.body = Append(r.body,
                                   [suppressed |-> Len(left) - max_comments])]
       ELSE [r EXCEPT !.comments = left]

\* PullRequest.post_review: the comments of the review are on the pull
\* request afterwards, and the next run's get_pr_comments returns them.
PrAfterPostReview(existing, r) == existing \cup Range(r.comments)

\* Comments an earlier run may have left on the pull request.
ExistingInputs ==
    SUBSET {[path |-> p, line |-> 1, start_line |-> NoStartLine,
             body |-> <<"linked">>] : p \in Paths}

\* ------------------------------------------------------------ annotations

\* comment.get("start_line", comment.get("line", 0)), review.py:258.
FirstLine(c) == IF c.start_line # NoStartLine THEN c.start_line ELSE c.line

\* convert_comment_to_annotations: one comment in the check-run schema.
convert_comment_to_annotations(c) ==
    [path |-> c.path, start_line |-> FirstLine(c), end_line |-> c.line,
     annotation_level |-> "warning", message |-> Head(c.body),
     title |-> "clang-tidy"]

\* review.py:255-259: "<path>:<line>: <first line of the body>".
TextLine(c) == <<c.path, FirstLine(c), Head(c.body)>>

SuccessBody ==
    [conclusion |-> "success", has_output |-> FALSE, summary |-> 0,
     text |-> <<>>, annotations |-> <<>>]

NeutralBody(r, cap) ==
    [conclusion |-> "neutral", has_output |-> TRUE,
     summary |-> Len(r.comments),
     text |-> [i \in 1 .. Len(r.comments) |-> TextLine(r.comments[i])],
     annotations |-> [i \in 1 .. Min(Len(r.comments), cap) |->
                         convert_comment_to_annotations(r.comments[i])]]

\* Reviews of up to 2 * AnnotLines comments, in (path, line) order, of
\* single-line comments or of comments ranging over the line above as well.
AnnotReviews ==
    {MkReview(LET locs == SortLocs(S)
              IN [i \in 1 .. Len(locs) |->
                     [path |-> locs[i][1], line |-> locs[i][2],
                      start_line |-> IF ranged /\ locs[i][2] > 1
                                     THEN locs[i][2] - 1 ELSE NoStartLine,
                      body |-> <<"raw">>]]) :
        S \in SUBSET (Paths \X (1 .. AnnotLines)), ranged \in BOOLEAN}

\* ------------------------------------------------------------------ state

VARIABLES
    pc,               \* where main() is
    args,             \* the parsed command line
    diff,             \* the pull request's diff, as create_review fetched it
    running,          \* linter instances started and not yet exited
    completed,        \* exit records of the instances, in completion order
    merged,           \* the aggregated diagnostics
    review,           \* what create_review returned
    pr_comments,      \* the comments on the pull request
    trimmed_review,   \* post_review's trimmed_review
    total_comments,   \* post_review's total_comments
    output,           \* set_output("total_comments", ...)
    ret,              \* what post_review / post_annotations returned
    sent_reviews,     \* this run's PullRequest.post_review payloads
    lgtm_calls,       \* this run's PullRequest.post_lgtm_comment calls
    sent_annotations, \* this run's PullRequest.post_annotations payloads
    failed_step,      \* the required step that failed, "" if none
    create_done,      \* create_review has returned
    prev_run,         \* what the previous run sent to the review sink
    run               \* the number of this run

vars == <<pc, args, diff, running, completed, merged, review, pr_comments,
          trimmed_review, total_comments, output, ret, sent_reviews,
          lgtm_calls, sent_annotations, failed_step, create_done, prev_run, run>>

build_vars == <<diff, running, completed, merged>>
post_vars == <<trimmed_review, total_comments, ret, sent_reviews, lgtm_calls>>

ArgInputs ==
    [split_workflow : BOOLEAN, annotations : BOOLEAN, dry_run : BOOLEAN,
     max_comments : 0 .. MaxComments]

NoPrevRun == [posted |-> FALSE, truncated |-> FALSE]

Fresh ==
    /\ diff = NoDiff
    /\ running = {}
    /\ completed = <<>>
    /\ merged = <<>>
    /\ review = None
    /\ trimmed_review = None
    /\ total_comments = NoValue
    /\ output = NoValue
    /\ ret = NoValue
    /\ sent_reviews = <<>>
    /\ lgtm_calls = 0
    /\ sent_annotations = <<>>
    /\ failed_step = ""
    /\ create_done = FALSE
    /\ prev_run = NoPrevRun
    /\ run = 1

\* main() after parse_args, on a pull request earlier runs may have touched.
Init ==
    /\ pc = "apt"
    /\ args \in ArgInputs
    /\ pr_comments \in ExistingInputs
    /\ Fresh

\* ------------------------------------------------------------------ main

\* Mutation: subprocess.run without check=True; a failed apt-get is ignored.
AptInstallUnchecked ==
    /\ pc = "apt"
    /\ pc' = "cmake"
    /\ failed_step' \in {failed_step, "apt-get update", "apt-get install"}
    /\ UNCHANGED <<args, build_vars, review, pr_comments, post_vars, output,
                   sent_annotations, create_done, prev_run, run>>

\* review.py:138-149: apt-get update, then apt-get install, both check=True.
AptInstall ==
    /\ pc = "apt"
    /\ \/ /\ pc' = "cmake"              \* nothing to install, or both succeed
          /\ UNCHANGED failed_step
       \/ /\ pc' = "failed"             \* CalledProcessError
          /\ failed_step' = "apt-get update"
       \/ /\ pc' = "failed"
          /\ failed_step' = "apt-get install"
    /\ UNCHANGED <<args, build_vars, review, pr_comments, post_vars, output,
                   sent_annotations, create_done, prev_run, run>>

\* review.py:151-164: cmake with check=True, or fix_absolute_paths.
RunCmake ==
    /\ pc = "cmake"
    /\ \/ /\ pc' = "create"
          /\ UNCHANGED failed_step
       \/ /\ pc' = "failed"
          /\ failed_step' = "cmake"
    /\ UNCHANGED <<args, build_vars, review, pr_comments, post_vars, output,
                   sent_annotations, create_done, prev_run, run>>

\* review.py:166-175: review = create_review(...), as one call.
CreateReview ==
    /\ pc = "create"
    /\ \E o \in CreateReviewOutcomes :
          IF o.ok
          THEN /\ review' = o.review
               /\ create_done' = TRUE
               /\ pc' = "save"
               /\ UNCHANGED failed_step
          ELSE /\ failed_step' = "create_review"
               /\ pc' = "failed"
               /\ UNCHANGED <<review, create_done>>
    /\ UNCHANGED <<args, build_vars, pr_comments, post_vars, output,
                   sent_annotations, prev_run, run>>

\* review.py:177-178: save_metadata; create_review's locals are gone.
SaveMetadata ==
    /\ pc = "save"
    /\ pc' = "split"
    /\ running' = {}
    /\ completed' = <<>>
    /\ merged' = <<>>
    /\ UNCHANGED <<args, diff, review, pr_comments, post_vars, output,
                   sent_annotations, failed_step, create_done, prev_run, run>>

\* Mutation: the return after set_output is missing.
SplitWorkflowFallsThrough ==
    /\ pc = "split"
    /\ output' = IF ~args.split_workflow THEN output
                 ELSE IF ~review.present THEN 0 ELSE Len(review.comments)
    /\ pc' = "dispatch"
    /\ UNCHANGED <<args, build_vars, review, pr_comments, post_vars,
                   sent_annotations, failed_step, create_done, prev_run, run>>

\* review.py:180-184.
SplitWorkflow ==
    /\ pc = "split"
    /\ IF args.split_workflow
       THEN /\ output' = IF ~review.present THEN 0 ELSE Len(review.comments)
            /\ pc' = "done"
       ELSE /\ pc' = "dispatch"
            /\ UNCHANGED output
    /\ UNCHANGED <<args, build_vars, review, pr_comments, post_vars,
                   sent_annotations, failed_step, create_done, prev_run, run>>

\* ----------------------------------------------------------- post_review

\* review.py:206-210.
PostReviewClean ==
    /\ pc = "dispatch"
    /\ ~args.annotations
    /\ ~review.present \/ review.comments = <<>>
    /\ lgtm_calls' = IF args.dry_run THEN lgtm_calls ELSE lgtm_calls + 1
    /\ ret' = 0
    /\ pc' = "done"
    /\ UNCHANGED <<args, build_vars, review, pr_comments, trimmed_review,
                   total_comments, output, sent_reviews, sent_annotations,
                   failed_step, create_done, prev_run, run>>

\* review.py:212-219.
PostReviewCull ==
    /\ pc = "dispatch"
    /\ ~args.annotations
    /\ review.present /\ review.comments # <<>>
    /\ total_comments' = Len(review.comments)
    /\ output' = Len(review.comments)
    /\ trimmed_review' =
           cull_comments(pr_comments, decorate_comments(review), args.max_comments)
    /\ pc' = "culled"
    /\ UNCHANGED <<args, build_vars, review, pr_comments, ret, sent_reviews,
                   lgtm_calls, sent_annotations, failed_step, create_done,
                   prev_run, run>>

\* Mutation: "everything already posted" is treated like "no warnings".
PostReviewNothingNewLgtm ==
    /\ pc = "culled"
    /\ trimmed_review.comments = <<>>
    /\ lgtm_calls' = IF args.dry_run THEN lgtm_calls ELSE lgtm_calls + 1
    /\ ret' = total_comments
    /\ pc' = "done"
    /\ UNCHANGED <<args, build_vars, review, pr_comments, trimmed_review,
                   total_comments, output, sent_reviews, sent_annotations,
                   failed_step, create_done, prev_run, run>>

\* review.py:221-223.
PostReviewNothingNew ==
    /\ pc = "culled"
    /\ trimmed_review.comments = <<>>
    /\ ret' = total_comments
    /\ pc' = "done"
    /\ UNCHANGED <<args, build_vars, review, pr_comments, trimmed_review,
                   total_comments, output, sent_reviews, lgtm_calls,
                   sent_annotations, failed_step, create_done, prev_run, run>>

\* review.py:225-227.
PostReviewDryRun ==
    /\ pc = "culled"
    /\ trimmed_review.comments # <<>>
    /\ args.dry_run
    /\ ret' = total_comments
    /\ pc' = "done"
    /\ UNCHANGED <<args, build_vars, review, pr_comments, trimmed_review,
                   total_comments, output, sent_reviews, lgtm_calls,
                   sent_annotations, failed_step, create_done, prev_run, run>>

\* Mutation: the decorated review is posted instead of the trimmed one.
PostReviewPostUntrimmed ==
    /\ pc = "culled"
    /\ trimmed_review.comments # <<>>
    /\ ~args.dry_run
    /\ sent_reviews' = Append(sent_reviews, decorate_comments(review))
    /\ pr_comments' = PrAfterPostReview(pr_comments, decorate_comments(review))
    /\ ret' = total_comments
    /\ pc' = "done"
    /\ UNCHANGED <<args, build_vars, review, trimmed_review, total_comments,
                   output, lgtm_calls, sent_annotations, failed_step,
                   create_done, prev_run, run>>

\* Mutation: the review as create_review returned it is posted.
PostReviewPostRaw ==
    /\ pc = "culled"
    /\ trimmed_review.comments # <<>>
    /\ ~args.dry_run
    /\ sent_reviews' = Append(sent_reviews, review)
    /\ pr_comments' = PrAfterPostReview(pr_comments, review)
    /\ ret' = total_comments
    /\ pc' = "done"
    /\ UNCHANGED <<args, build_vars, review, trimmed_review, total_comments,
                   output, lgtm_calls, sent_annotations, failed_step,
                   create_done, prev_run, run>>

\* review.py:229-232.
PostReviewPost ==
    /\ pc = "culled"
    /\ trimmed_review.comments # <<>>
    /\ ~args.dry_run
    /\ sent_reviews' = Append(sent_reviews, trimmed_review)
    /\ pr_comments' = PrAfterPostReview(pr_comments, trimmed_review)
    /\ ret' = total_comments
    /\ pc' = "done"
    /\ UNCHANGED <<args, build_vars, review, trimmed_review, total_comments,
                   output, lgtm_calls, sent_annotations, failed_step,
                   create_done, prev_run, run>>

\* ------------------------------------------------------ post_annotations

\* review.py:247-248.
PostAnnotationsNone ==
    /\ pc = "dispatch"
    /\ args.annotations
    /\ ~review.present
    /\ pc' = "done"
    /\ UNCHANGED <<args, build_vars, review, pr_comments, post_vars, output,
                   sent_annotations, failed_step, create_done, prev_run, run>>

\* Mutation: the annotations are capped by --max-comments.
PostAnnotationsCapMaxComments ==
    /\ pc = "dispatch"
    /\ args.annotations
    /\ review.present
    /\ sent_annotations' =
           sent_annotations
               \o (IF review.comments = <<>> THEN <<SuccessBody>> ELSE <<>>)
               \o <<NeutralBody(review, args.max_comments)>>
    /\ ret' = Len(review.comments)
    /\ pc' = "done"
    /\ UNCHANGED <<args, build_vars, review, pr_comments, trimmed_review,
                   total_comments, output, sent_reviews, lgtm_calls,
                   failed_step, create_done, prev_run, run>>

\* review.py:250-275: the empty review's "success" body is sent and the
\* function goes on (no return) to build and send the "neutral" body.
PostAnnotations ==
    /\ pc = "dispatch"
    /\ args.annotations
    /\ review.present
    /\ sent_annotations' =
           sent_annotations
               \o (IF review.comments = <<>> THEN <<SuccessBody>> ELSE <<>>)
               \o <<NeutralBody(review, MAX_ANNOTATIONS)>>
    /\ ret' = Len(review.comments)
    /\ pc' = "done"
    /\ UNCHANGED <<args, build_vars, review, pr_comments, trimmed_review,
                   total_comments, output, sent_reviews, lgtm_calls,
                   failed_step, create_done, prev_run, run>>

Next ==
    \/ AptInstall
    \/ RunCmake
    \/ CreateReview
    \/ SaveMetadata
    \/ SplitWorkflow
    \/ PostReviewClean
    \/ PostReviewCull
    \/ PostReviewNothingNew
    \/ PostReviewDryRun
    \/ PostReviewPost
    \/ PostAnnotationsNone
    \/ PostAnnotations

Spec == Init /\ [][Next]_vars

\* ------------------------------------------- consecutive runs (SpecPost)

RunInit ==
    /\ diff = NoDiff
    /\ running = {}
    /\ completed = <<>>
    /\ merged = <<>>
    /\ trimmed_review = None
    /\ total_comments = NoValue
    /\ output = NoValue
    /\ ret = NoValue
    /\ sent_reviews = <<>>
    /\ lgtm_calls = 0
    /\ sent_annotations = <<>>
    /\ failed_step = ""
    /\ create_done = TRUE

\* main() at review.py:186 of a run that posts a review (no --annotations,
\* no --split_workflow), with the review create_review returned.
InitPost ==
    /\ pc = "dispatch"
    /\ args \in {a \in ArgInputs : ~a.annotations /\ ~a.split_workflow}
    /\ review \in ReviewInputs
    /\ pr_comments \in ExistingInputs
    /\ prev_run = NoPrevRun
    /\ run = 1
    /\ RunInit

\* The action is triggered again with no code changes: main() reaches
\* review.py:186 with the same review, whatever this run's options are, and
\* get_pr_comments returns what the earlier runs left.
Rerun ==
    /\ pc = "done"
    /\ run < MaxRuns
    /\ run' = run + 1
    /\ prev_run' = [posted |-> sent_reviews # <<>>,
                    truncated |-> sent_reviews # <<>>
                                    /\ sent_reviews[Len(sent_reviews)].body # <<>>]
    /\ args' \in {a \in ArgInputs : ~a.annotations /\ ~a.split_workflow}
    /\ pc' = "dispatch"
    /\ trimmed_review' = None
    /\ total_comments' = NoValue
    /\ output' = NoValue
    /\ ret' = NoValue
    /\ sent_reviews' = <<>>
    /\ lgtm_calls' = 0
    /\ UNCHANGED <<build_vars, review, pr_comments, sent_annotations,
                   failed_step, create_done>>

NextPost ==
    \/ PostReviewClean
    \/ PostReviewCull
    \/ PostReviewNothingNew
    \/ PostReviewDryRun
    \/ PostReviewPost
    \/ Rerun

SpecPost == InitPost /\ [][NextPost]_vars

\* ------------------------------------------- post_annotations (SpecAnnot)

\* main() at review.py:186 with --annotations true, on reviews that may hold
\* more than MAX_ANNOTATIONS comments.
InitAnnot ==
    /\ pc = "dispatch"
    /\ args \in {a \in ArgInputs :
                    a.annotations /\ ~a.split_workflow /\ ~a.dry_run}
    /\ review \in AnnotReviews \cup {None}
    /\ pr_comments = {}
    /\ prev_run = NoPrevRun
    /\ run = 1
    /\ RunInit

NextAnnot ==
    \/ PostAnnotationsNone
    \/ PostAnnotations

SpecAnnot == InitAnnot /\ [][NextAnnot]_vars

\* ------------------------------------ inside create_review (SpecBuild)

\* create_review fetches and indexes the diff, then starts the linter
\* instances; a malformed diff is fatal.
FetchDiff ==
    /\ pc = "create"
    /\ \E d \in DiffInputs :
          /\ diff' = d
          /\ IF d.ok
             THEN /\ running' = Instances
                  /\ pc' = "linting"
                  /\ UNCHANGED failed_step
             ELSE /\ failed_step' = "create_review"
                  /\ pc' = "failed"
                  /\ UNCHANGED running
    /\ UNCHANGED <<args, completed, merged, review, pr_comments, post_vars,
                   output, sent_annotations, create_done, prev_run, run>>

\* create_review finds nothing to lint and returns no review.
ReturnNone ==
    /\ pc = "create"
    /\ review' = None
    /\ create_done' = TRUE
    /\ pc' = "save"
    /\ UNCHANGED <<args, build_vars, pr_comments, post_vars, output,
                   sent_annotations, failed_step, prev_run, run>>

\* Instance i exits, with its diagnostics or with a non-zero status.
InstanceExit(i) ==
    /\ pc = "linting"
    /\ i \in running
    /\ \E r \in {[index |-> i, output |-> o, code |-> 0] : o \in OutputInputs}
                    \cup {[index |-> i, output |-> <<>>, code |-> 1]} :
          completed' = Append(completed, r)
    /\ running' = running \ {i}
    /\ UNCHANGED <<pc, args, diff, merged, review, pr_comments, post_vars,
                   output, sent_annotations, failed_step, create_done,
                   prev_run, run>>

\* All instances have exited with status 0: their outputs are joined.
AggregateOutputs ==
    /\ pc = "linting"
    /\ running = {}
    /\ \A k \in 1 .. Len(completed) : completed[k].code = 0
    /\ merged' = Aggregate(completed)
    /\ pc' = "aggregated"
    /\ UNCHANGED <<args, diff, running, completed, review, pr_comments,
                   post_vars, output, sent_annotations, failed_step,
                   create_done, prev_run, run>>

\* All instances have exited and one of them failed: fatal.
LinterFailed ==
    /\ pc = "linting"
    /\ running = {}
    /\ \E k \in 1 .. Len(completed) : completed[k].code # 0
    /\ failed_step' = "create_review"
    /\ pc' = "failed"
    /\ UNCHANGED <<args, build_vars, review, pr_comments, post_vars, output,
                   sent_annotations, create_done, prev_run, run>>

\* create_review returns the review built from the joined diagnostics.
BuildReview ==
    /\ pc = "aggregated"
    /\ review' = CommentBuilder(merged, diff)
    /\ create_done' = TRUE
    /\ pc' = "save"
    /\ UNCHANGED <<args, build_vars, pr_comments, post_vars, output,
                   sent_annotations, failed_step, prev_run, run>>

\* One run with the default way of posting (a review, no dry run, no split
\* workflow) on a pull request without earlier comments, from the call of
\* create_review on.
InitBuild ==
    /\ pc = "create"
    /\ args = [split_workflow |-> FALSE, annotations |-> FALSE,
               dry_run |-> FALSE, max_comments |-> MaxComments]
    /\ pr_comments = {}
    /\ Fresh

NextBuild ==
    \/ FetchDiff
    \/ ReturnNone
    \/ \E i \in Instances : InstanceExit(i)
    \/ AggregateOutputs
    \/ LinterFailed
    \/ BuildReview
    \/ SaveMetadata
    \/ SplitWorkflow
    \/ PostReviewClean
    \/ PostReviewCull
    \/ PostReviewPost

SpecBuild == InitBuild /\ [][NextBuild]_vars

\* ----------------------------------------------------------------- claims

NothingSent == sent_reviews = <<>> /\ lgtm_calls = 0 /\ sent_annotations = <<>>

\* The comments of review r that are not on the pull request yet, as
\* decorated, in the review's order.
Candidates(r, existing) ==
    LET dec == decorate_comments(r).comments
        idx == {i \in 1 .. Len(dec) : dec[i] \notin existing}
        nth(j) == CHOOSE i \in idx : Cardinality({h \in idx : h < i}) = j - 1
    IN [j \in 1 .. Cardinality(idx) |-> dec[nth(j)]]

\* C1: with n the number of comments left after removing the posted ones and
\* k = max_comments, if n > k the review cull_comments returns holds exactly
\* the first k of those n comments, in order, and one summary entry stating
\* n - k; and a review post_review hands to PullRequest.post_review is that
\* review.
C1_Truncation ==
    [][/\ pc' = "culled" =>
            LET cand == Candidates(review', pr_comments')
                n == Len(cand)
                k == args'.max_comments
            IN n > k =>
                  /\ Len(trimmed_review'.comments) = k
                  /\ \A j \in 1 .. k : trimmed_review'.comments[j] = cand[j]
                  /\ Len(trimmed_review'.body) = 1
                  /\ trimmed_review'.body[1].suppressed = n - k
       /\ Len(sent_reviews') > Len(sent_reviews) =>
            /\ pc = "culled"
            /\ sent_reviews' = Append(sent_reviews, trimmed_review)]_vars

C1_Witness ==
    /\ sent_reviews # <<>>
    /\ sent_reviews[1].body # <<>>
    /\ args.max_comments >= 1
    /\ Len(sent_reviews[1].comments) = args.max_comments
    /\ Len(review.comments) > args.max_comments

\* C2 as stated: in a run over the same review that follows a run which
\* posted its reconciled comments, nothing is left to post and neither the
\* review sink nor the LGTM sink is called.
C2_RerunPostsNothing ==
    (prev_run.posted /\ pc \in {"culled", "done"}) =>
        /\ trimmed_review.comments = <<>>
        /\ sent_reviews = <<>>
        /\ lgtm_calls = 0

\* C2 as amended: the same, when the run before posted all its candidates,
\* that is, when its review was not truncated to max_comments.
C2_RerunAfterFullPost ==
    (prev_run.posted /\ ~prev_run.truncated /\ pc \in {"culled", "done"}) =>
        /\ trimmed_review.comments = <<>>
        /\ sent_reviews = <<>>
        /\ lgtm_calls = 0

C2_Witness ==
    /\ run = 2
    /\ prev_run.posted
    /\ ~prev_run.truncated
    /\ pc = "done"
    /\ ret = Len(review.comments)
    /\ Len(review.comments) >= 2

IsAddedLine(d, p, l) ==
    \E i \in 1 .. Len(d.hunks[p]) :
        /\ d.hunks[p][i] = "add"
        /\ l = Cardinality({j \in 1 .. i : d.hunks[p][j] # "del"})

Anchored(c) ==
    /\ IsAddedLine(diff, c.path, c.line)
    /\ c.start_line # NoStartLine =>
          c.start_line < c.line /\ IsAddedLine(diff, c.path, c.start_line)

\* C4: every comment of the review, and every comment handed to the review
\* sink, is on an added line of the diff of its file, and so is the first
\* line of a ranged comment; the review has at most
\* as many comments as there are diagnostics on added lines; a file whose
\* diff only deletes has no comment.
C4_CommentsOnChangedLines ==
    /\ \A i \in 1 .. Len(review.comments) : Anchored(review.comments[i])
    /\ \A k \in 1 .. Len(sent_reviews) :
          \A i \in 1 .. Len(sent_reviews[k].comments) :
              Anchored(sent_reviews[k].comments[i])
    /\ pc = "save" =>
          Len(review.comments) <=
              Cardinality({i \in 1 .. Len(merged) :
                              IsAddedLine(diff, merged[i].path, merged[i].line)})
    /\ \A p \in Paths :
          (diff.hunks[p] # <<>> /\ \A i \in 1 .. Len(diff.hunks[p]) :
                                       diff.hunks[p][i] = "del")
              => \A i \in 1 .. Len(review.comments) : review.comments[i].path # p

C4_Witness ==
    /\ pc = "save"
    /\ Len(review.comments) = 1
    /\ Len(merged) = 2
    /\ \E i \in 1 .. Len(merged) :
          /\ ~IsAddedLine(diff, merged[i].path, merged[i].line)
          /\ \A j \in 1 .. Len(diff.hunks[merged[i].path]) :
                diff.hunks[merged[i].path][j] = "del"

\* C5: once a required step has failed main has stopped and no sink has been
\* called, and a sink is only ever called after create_review has returned.
C5_FatalErrorsNeverPost ==
    /\ failed_step # "" => pc = "failed" /\ NothingSent /\ pr_comments \in ExistingInputs
    /\ ~NothingSent => create_done /\ failed_step = ""

C5_Witness ==
    /\ pc = "failed"
    /\ failed_step = "create_review"
    /\ ~args.dry_run
    /\ NothingSent

\* C6: with --dry-run no sink is called, whatever the other options are.
C6_DryRunPostsNothing == args.dry_run => NothingSent

\* C7: for a review of n >= 1 comments post_annotations sends one payload;
\* its annotations are the conversions of the first min(n, MAX_ANNOTATIONS)
\* comments, its text has a line for each of the n comments and its summary
\* states n, whatever max_comments is.
C7_AnnotationCap ==
    (pc = "done" /\ review.present /\ Len(review.comments) >= 1) =>
        /\ Len(sent_annotations) = 1
        /\ LET b == sent_annotations[1]
               n == Len(review.comments)
               m == IF n < MAX_ANNOTATIONS THEN n ELSE MAX_ANNOTATIONS
           IN /\ Len(b.annotations) = m
              /\ \A i \in 1 .. m :
                    b.annotations[i] = convert_comment_to_annotations(review.comments[i])
              /\ Len(b.text) = n
              /\ \A i \in 1 .. n :
                    b.text[i][1] = review.comments[i].path
                        /\ b.text[i][2] =
                               (IF review.comments[i].start_line # NoStartLine
                                THEN review.comments[i].start_line
                                ELSE review.comments[i].line)
              /\ b.summary = n

C7_Witness ==
    /\ pc = "done"
    /\ Len(review.comments) > MAX_ANNOTATIONS
    /\ Len(sent_annotations) = 1
    /\ Len(sent_annotations[1].annotations) = MAX_ANNOTATIONS
    /\ Len(sent_annotations[1].text) > MAX_ANNOTATIONS
    /\ args.max_comments < MAX_ANNOTATIONS

\* What instance i wrote, from its completion record.
OutputOf(i) ==
    LET k == CHOOSE k \in 1 .. Len(completed) : completed[k].index = i
    IN completed[k].output

RECURSIVE JoinUpTo(_)
JoinUpTo(i) == IF i = 0 THEN <<>> ELSE JoinUpTo(i - 1) \o OutputOf(i)

\* C8: the diagnostics are aggregated only when every instance has exited,
\* and the aggregate is the outputs of instance 1, 2, ... one after the other,
\* whatever the order in which the instances finished.
C8_DeterministicJoin ==
    /\ merged # <<>> => running = {}
    /\ (pc = "aggregated" \/ (pc = "save" /\ review.present)) =>
          /\ running = {}
          /\ Len(completed) = Cardinality(Instances)
          /\ {completed[k].index : k \in 1 .. Len(completed)} = Instances
          /\ merged = JoinUpTo(Cardinality(Instances))

C8_Witness ==
    /\ pc = "aggregated"
    /\ completed[1].index = 2
    /\ OutputOf(1) # <<>>
    /\ OutputOf(2) # <<>>
    /\ OutputOf(1) # OutputOf(2)

\* C9: with split_workflow no sink is ever called, and when main has returned
\* the total_comments output is 0 for an absent review and otherwise the
\* number of comments of the review as create_review returned it.
C9_SplitWorkflowNeverPosts ==
    args.split_workflow =>
        /\ NothingSent
        /\ pc \notin {"dispatch", "culled"}
        /\ pc = "done" =>
              /\ create_done
              /\ output = IF ~review.present THEN 0 ELSE Len(review.comments)

C9_Witness ==
    /\ args.split_workflow
    /\ args.annotations
    /\ pc = "done"
    /\ output = 2
    /\ pr_comments # {}

\* C10: post_annotations sends at most one payload; a payload concludes
\* "success", without output, exactly when the review has no comment and
\* "neutral" exactly when it has one; nothing is sent for an absent review.
C10_OneAnnotationPayload ==
    pc = "done" =>
        /\ Len(sent_annotations) <= 1
        /\ ~review.present => sent_annotations = <<>>
        /\ \A k \in 1 .. Len(sent_annotations) :
              /\ sent_annotations[k].conclusion = "success"
                    <=> review.comments = <<>>
              /\ sent_annotations[k].conclusion = "success"
                    => ~sent_annotations[k].has_output
              /\ sent_annotations[k].conclusion = "neutral"
                    <=> Len(review.comments) >= 1

====
